---- MODULE Spec2Model ----
(***************************************************************************)
(* State-machine model of the on-demand video-frame decoding pipeline of   *)
(* the Cavalry web player demo (video-asset/webcodec-helper.js and the     *)
(* CavalryVideoAssetPlayer class that owns asset disposal).                *)
(*                                                                         *)
(* One asset id is modelled.  JavaScript arrays are 0-based: indices are   *)
(* kept 0-based in the values stored and read through At(s, i).            *)
(***************************************************************************)
EXTENDS Integers, Sequences, FiniteSets, TLC

\* ------------------------------------------------------------------ bounds
MaxSamples == 3     \* samples the demuxer delivers for one load
MaxCts == 2         \* composition timestamps are drawn from 0..MaxCts
MaxBatch == 2       \* samples per onSamples batch
MaxCount == 2       \* frame count of a requested range
MaxEntries == 5     \* decode queue entries pushed in one behaviour
MaxRetry == 2       \* retry timers pending at once
MaxDim == 3         \* visible rectangle widths are in 1..MaxDim
MaxBlocks == 3      \* heap blocks allocated in one behaviour
MaxInFlight == 3    \* output callbacks suspended at the frame copy at once
MaxCalls == 2       \* prefetchFrames calls by the engine in one behaviour
MaxDispose == 2     \* disposeVideoAsset calls in one behaviour
MaxLoads == 2       \* prepareVideo runs in one behaviour

\* -------------------------------------------------------- program constants
Fps == 30                   \* fps fallback when the track declares none
Timescale == 30             \* videoTrack.timescale of the modelled track
BytesPerPixel == 4
PrefillCap == 10            \* Math.min(10, maxFrames)
CacheBytes == 100663296     \* 96 * 1024 * 1024
Micros == 1000000           \* 1e6

Null == 0 - 1               \* null / undefined for number-valued fields
RewrittenTs == 0 - 7        \* a timestamp no submitted chunk carries

\* ------------------------------------------------------------------ helpers
At(s, i) == s[i + 1]
Min2(a, b) == IF a < b THEN a ELSE b
Max2(a, b) == IF a > b THEN a ELSE b
SetMin(S) == CHOOSE x \in S : \A y \in S : x <= y
SetMax(S) == CHOOSE x \in S : \A y \in S : x >= y
\* Math.round(n / d) for n >= 0, d > 0
RoundDiv(n, d) == (2 * n + d) \div (2 * d)

\* ----------------------------------------------------- timestamps of samples
getCompositionTimestamp(sample) ==
    IF sample.cts # Null THEN sample.cts
    ELSE IF sample.dts # Null THEN sample.dts
    ELSE Null

convertTimestampToMicros(compositionTimestamp, timescale, decodeIndex, fps) ==
    IF compositionTimestamp # Null
    THEN RoundDiv(compositionTimestamp * Micros, timescale)
    ELSE LET frameDurationMicros == IF fps # 0 THEN RoundDiv(Micros, fps) ELSE 0
         IN  decodeIndex * frameDurationMicros

\* ------------------------------------------------------ presentation timeline
\* A slip that compares decode indices only.
CompareTimelineByDecode(a, b) == a.decodeIndex - b.decodeIndex

\* the comparator of timeline.sort
CompareTimeline(a, b) ==
    IF a.timestampMicros # b.timestampMicros
    THEN a.timestampMicros - b.timestampMicros
    ELSE a.decodeIndex - b.decodeIndex

RECURSIVE InsertSorted(_, _)
InsertSorted(e, s) ==
    IF s = <<>> THEN <<e>>
    ELSE IF CompareTimeline(e, Head(s)) < 0 THEN <<e>> \o s
    ELSE <<Head(s)>> \o InsertSorted(e, Tail(s))

RECURSIVE SortTimeline(_)
SortTimeline(s) ==
    IF s = <<>> THEN <<>>
    ELSE InsertSorted(s[Len(s)], SortTimeline(SubSeq(s, 1, Len(s) - 1)))

\* samples.map(...): one {decodeIndex, timestampMicros} per sample
TimelineOf(smp) ==
    [ i \in 1..Len(smp) |->
        [ decodeIndex |-> i - 1,
          timestampMicros |->
              convertTimestampToMicros(getCompositionTimestamp(smp[i]),
                                       Timescale, i - 1, Fps) ] ]

BuildFrameToDecode(timeline) ==
    [ f \in 1..Len(timeline) |-> timeline[f].decodeIndex ]

BuildFrameTimestamps(timeline) ==
    [ f \in 1..Len(timeline) |-> timeline[f].timestampMicros ]

\* A slip that stores the frame's decode index at the frame's own slot.
BuildDecodeToFrameSwapped(timeline) ==
    [ f \in 1..Len(timeline) |-> timeline[f].decodeIndex ]

\* new Array(n), then decodeToFrame[entry.decodeIndex] = frameIndex in
\* frame order (the last write to a slot wins; an unwritten slot stays empty)
BuildDecodeToFrame(timeline) ==
    [ d \in 1..Len(timeline) |->
        LET fs == { f \in 1..Len(timeline) : timeline[f].decodeIndex = d - 1 }
        IN  IF fs = {} THEN Null ELSE SetMax(fs) - 1 ]

\* the per-sample stamps updatePresentationTimeline leaves on the samples
StampSamples(smp, timeline) ==
    [ i \in 1..Len(smp) |->
        [ smp[i] EXCEPT
            !.compositionTimestamp = getCompositionTimestamp(smp[i]),
            !.timestampMicros =
                convertTimestampToMicros(getCompositionTimestamp(smp[i]),
                                         Timescale, i - 1, Fps),
            !.frameIndex =
                LET fs == { f \in 1..Len(timeline) :
                               timeline[f].decodeIndex = i - 1 }
                IN  IF fs = {} THEN Null ELSE SetMax(fs) - 1 ] ]

updatePresentationTimeline(a, smp) ==
    IF Len(smp) = 0
    THEN [ a EXCEPT !.frameToDecode = <<>>, !.decodeToFrame = <<>>,
                    !.frameTimestamps = <<>> ]
    ELSE LET timeline == SortTimeline(TimelineOf(smp))
         IN  [ a EXCEPT !.frameToDecode = BuildFrameToDecode(timeline),
                        !.decodeToFrame = BuildDecodeToFrame(timeline),
                        !.frameTimestamps = BuildFrameTimestamps(timeline) ]

hasFramesForRange(a, start, count) ==
    IF count <= 0 THEN FALSE
    ELSE IF Len(a.frameToDecode) = 0 THEN FALSE
    ELSE IF Len(a.frameToDecode) <= start + count - 1 THEN FALSE
    ELSE \A frame \in start..(start + count - 1) :
            frame >= 0 /\ At(a.frameToDecode, frame) # Null


\* ---------------------------------------------------------------- state
VARIABLES
    registry,      \* window._videoAssets is defined
    registered,    \* window._videoAssets[assetId] is defined
    asset,         \* the asset object created by onReady
    samples,       \* the `samples` array of the load's closure
    decoder,       \* the VideoDecoder: state, key-chunk flag, outputs owed
    loader,        \* the latest load: its phase and the state of its promise,
                   \* the prepareVideo runs so far and how many earlier
                   \* runs are still fetching
    retryTimers,   \* pending setTimeout(() => feedBatch(...), 16), in order,
                   \* each with the load of the asset whose feedBatch set it
    clearTimers,   \* pending setTimeout(currentFetchRange = null, 100), in
                   \* order, each with the range and the asset of its
                   \* submission and the retry timers started before it
    heap,          \* blocks handed out by _malloc: size, live, times freed
    callbacks,     \* decoderOutput invocations suspended at frame.copyTo
    frameIndex,    \* the `frameIndex` counter of the load's closure
    nextSeq,       \* identity of the next decode queue entry object
    hookCalls,     \* prefetchFrames calls so far
    calls,         \* the feedBatch invocations of the last step, in order
    lastMatch,     \* how the last decoderOutput found its queue entry
    lastOutput,    \* the decoderOutput invocation that last returned
    lastDelivery,  \* the last onPrefetchFrame call
    delivered,     \* the onPrefetchFrame calls so far: the frame indices, and
                   \* how many were made while isInitialPrefill was set
    requested,     \* the frames of the ranges feedBatch has submitted so far
    disposeLog     \* what disposeVideoAsset calls have done so far

vars == << registry, registered, asset, samples, decoder, loader, retryTimers,
           clearTimers, heap, callbacks, frameIndex, nextSeq, hookCalls,
           calls, lastMatch, lastOutput, lastDelivery, delivered, requested,
           disposeLog >>

NoRange == <<>>
EmptyMap == [ k \in {} |-> <<>> ]

\* The fields of the asset object (before onReady the object does not exist;
\* the record then holds the values below and `registered` is FALSE).
BlankAsset ==
    [ load |-> 0, totalFrames |-> 0,
      ptr |-> 0, frameBytes |-> 0, width |-> 0, height |-> 0,
      initialPrefillFrames |-> 0, isInitialPrefill |-> FALSE,
      currentPrefillIndex |-> 0, pendingPrefetch |-> NoRange,
      prefillRequested |-> FALSE, currentFetchRange |-> NoRange,
      decodeQueue |-> <<>>, decodeQueueByTimestamp |-> EmptyMap,
      frameToDecode |-> <<>>, decodeToFrame |-> <<>>, frameTimestamps |-> <<>>,
      samplesSet |-> FALSE, copyMethod |-> "unset", useStrideSize |-> FALSE,
      canvas |-> FALSE ]

NoDelivery == [ made |-> FALSE, frame |-> Null, ptr |-> 0, live |-> FALSE,
                size |-> 0, required |-> 0, frameBytes |-> 0,
                registered |-> FALSE ]
NoOutput == [ exit |-> "none", closes |-> 0, target |-> Null ]
NoMatch == [ via |-> "none", timestamp |-> Null, entry |-> 0, firstQueued |-> 0,
             sameTs |-> 0, ahead |-> 0, bucket |-> 0, head |-> 0,
             target |-> Null, earlier |-> Null ]

Init ==
    /\ registry = FALSE
    /\ registered = FALSE
    /\ asset = BlankAsset
    /\ samples = <<>>
    /\ decoder = [ state |-> "none", keyRequired |-> TRUE, pending |-> <<>> ]
    /\ loader = [ phase |-> "idle", promise |-> "none", resolved |-> FALSE,
                  loads |-> 0, overlap |-> 0 ]
    /\ retryTimers = <<>>
    /\ clearTimers = <<>>
    /\ heap = <<>>
    /\ callbacks = <<>>
    /\ frameIndex = 0
    /\ nextSeq = 1
    /\ hookCalls = 0
    /\ calls = <<>>
    /\ lastMatch = NoMatch
    /\ lastOutput = NoOutput
    /\ lastDelivery = NoDelivery
    /\ delivered = [ frames |-> {}, warm |-> 0 ]
    /\ requested = {}
    /\ disposeLog = [ calls |-> 0, closes |-> 0, frees |-> 0, threw |-> FALSE,
                     loads |-> {} ]

\* ------------------------------------------------------------------ heap
Malloc(h, n) == Append(h, [ size |-> n, live |-> TRUE, frees |-> 0 ])
Free(h, p) == [ h EXCEPT ![p].live = FALSE, ![p].frees = @ + 1 ]

\* ------------------------------------------------------- decoder (platform)
\* VideoDecoder.decode: throws on a closed decoder and on a delta chunk while
\* a key chunk is required; otherwise the decoder owes one output for it.
DecodeThrows(dec, isKey) ==
    dec.state # "configured" \/ (dec.keyRequired /\ ~isKey)

DecodeChunk(dec, isKey, ts) ==
    IF DecodeThrows(dec, isKey) THEN dec
    ELSE [ dec EXCEPT !.keyRequired = FALSE, !.pending = Append(@, ts) ]

\* ---------------------------------------------------- per-timestamp buckets
BucketPush(m, ts, e) ==
    IF ts \in DOMAIN m THEN [ m EXCEPT ![ts] = Append(@, e) ]
    ELSE m @@ (ts :> <<e>>)

BucketDelete(m, ts) == [ k \in (DOMAIN m) \ {ts} |-> m[k] ]

\* A slip that leaves the entry where it is.
RemoveEntryKeeps(q, id) == q

RemoveEntry(q, id) ==
    IF \E i \in 1..Len(q) : q[i].id = id
    THEN LET idx == SetMin({ i \in 1..Len(q) : q[i].id = id })
         IN  SubSeq(q, 1, idx - 1) \o SubSeq(q, idx + 1, Len(q))
    ELSE q

\* ---------------------------------------------------------------- feedBatch
RangesOverlap(start, requestEnd, range) ==
    ~(requestEnd < range[1] \/ start > range[2])

\* the requested frames that exist, and their decode indices
FramesToDeliver(a, start, count) ==
    { frame \in start..(Min2(start + count, Len(a.frameToDecode)) - 1) :
        frame >= 0 /\ At(a.frameToDecode, frame) # Null }

DecodeIndicesForRequest(a, start, count) ==
    { At(a.frameToDecode, frame) : frame \in FramesToDeliver(a, start, count) }

\* A scan that stops at the first sample whatever its flag.
KeyframeIndexNoScan(smp, minDecodeIndex) == minDecodeIndex

\* scan backwards from minDecodeIndex for a sample with is_sync
KeyframeIndex(smp, minDecodeIndex) ==
    LET syncs == { i \in 0..minDecodeIndex : At(smp, i).is_sync }
    IN  IF syncs = {} THEN minDecodeIndex ELSE SetMax(syncs)

\* A slip that marks every submitted sample deliverable.
DeliverFlagAlways(frameIdx, framesToDeliver) == frameIdx # Null

DeliverFlag(frameIdx, framesToDeliver) ==
    frameIdx # Null /\ frameIdx \in framesToDeliver

\* A slip that stops one sample short of maxDecodeIndex.
DecodeEndExclusiveShort(maxDecodeIndex, smp) == Min2(maxDecodeIndex, Len(smp))

DecodeEndExclusive(maxDecodeIndex, smp) == Min2(maxDecodeIndex + 1, Len(smp))

\* A slip that leaves the loop when decoder.decode throws.
NextIndexAborts(index, threw, endExclusive) ==
    IF threw THEN endExclusive ELSE index + 1

\* decode inside its own try/catch, then index++
NextIndex(index, threw, endExclusive) == index + 1

\* the while loop: one queue entry, one bucket entry and one decode per sample
RECURSIVE SubmitLoop(_, _, _, _, _, _)
SubmitLoop(st, index, endExclusive, smp, framesToDeliver, decodeToFrame) ==
    IF index >= endExclusive THEN st
    ELSE LET sample == At(smp, index)
             frameIndexRaw == IF index < Len(decodeToFrame)
                              THEN At(decodeToFrame, index) ELSE Null
             timestampMicros == sample.timestampMicros
             queueEntry == [ sampleIndex |-> index,
                             frameIndex |-> frameIndexRaw,
                             deliver |-> DeliverFlag(frameIndexRaw, framesToDeliver),
                             timestamp |-> timestampMicros,
                             id |-> st.seq ]
             next == [ queue |-> Append(st.queue, queueEntry),
                       byTs |-> BucketPush(st.byTs, timestampMicros, queueEntry),
                       dec |-> DecodeChunk(st.dec, sample.is_sync, timestampMicros),
                       seq |-> st.seq + 1,
                       decoded |-> Append(st.decoded, index),
                       threw |-> Append(st.threw,
                                        DecodeThrows(st.dec, sample.is_sync)),
                       entries |-> Append(st.entries, queueEntry) ]
         IN  SubmitLoop(next,
                        NextIndex(index, DecodeThrows(st.dec, sample.is_sync),
                                  endExclusive),
                        endExclusive, smp, framesToDeliver, decodeToFrame)

CallRecord(w, start, count, outcome, retry, key, st) ==
    [ start |-> start, count |-> count,
      registered |-> registered,
      covered |-> registered /\ hasFramesForRange(w.asset, start, count),
      inFlight |-> \E i \in 1..Len(w.clearTimers) :
                      RangesOverlap(start, start + count - 1,
                                    w.clearTimers[i].range),
      timer |-> w.timer, load |-> w.asset.load,
      outcome |-> outcome, retry |-> retry, keyframeIndex |-> key,
      decoded |-> st.decoded, threw |-> st.threw, entries |-> st.entries,
      frameToDecode |-> w.asset.frameToDecode ]

NoSubmit == [ decoded |-> <<>>, threw |-> <<>>, entries |-> <<>> ]

\* setTimeout(() => feedBatch(assetId, start, count), 16), set by a feedBatch
\* that found asset a; `reissued` notes that onSamples has since submitted
\* the request
RetryFor(a, start, count) ==
    [ start |-> start, count |-> count, load |-> a.load, reissued |-> FALSE ]

\* no timer: the call was made by the engine or by onSamples
NoTimer == [ start |-> Null, count |-> Null, load |-> 0, reissued |-> FALSE ]

\* setTimeout(() => { asset.currentFetchRange = null; }, 100): the asset object
\* it closes over and the range that object's marker was given; a timer of
\* 100 ms runs after the timers of 16 ms started before it
ClearFor(a, range, timers) ==
    [ range |-> range, load |-> a.load, after |-> Len(timers) ]

\* feedBatch(assetId, start, count) run on the world w = the asset object, the
\* decoder, the timers and the entry counter; `smp` is the closure's samples.
feedBatch(w, start, count, smp) ==
    LET a == w.asset
        note(outcome, retry) ==
            Append(w.calls, CallRecord(w, start, count, outcome, retry, Null, NoSubmit))
        pendingDiffers ==
            a.pendingPrefetch = NoRange \/ a.pendingPrefetch # <<start, count>>
    IN
    IF ~registered THEN [ w EXCEPT !.calls = note("noasset", FALSE) ]
    ELSE IF a.currentFetchRange # NoRange
            /\ RangesOverlap(start, start + count - 1, a.currentFetchRange)
    THEN [ w EXCEPT !.calls = note("overlap", FALSE) ]
    ELSE IF w.decoder.state = "none" \/ ~a.samplesSet \/ Len(a.frameToDecode) = 0
    THEN [ w EXCEPT !.calls = note("unavailable", FALSE) ]
    ELSE IF ~hasFramesForRange(a, start, count)
    THEN [ w EXCEPT
             !.asset.pendingPrefetch =
                 IF pendingDiffers THEN <<start, count>> ELSE @,
             !.retryTimers = Append(@, RetryFor(a, start, count)),
             !.calls = note("pending", TRUE) ]
    ELSE IF DecodeIndicesForRequest(a, start, count) = {}
    THEN [ w EXCEPT
             !.asset.pendingPrefetch = <<start, count>>,
             !.retryTimers = Append(@, RetryFor(a, start, count)),
             !.calls = note("pending", TRUE) ]
    ELSE LET requestEndFrameExclusive == Min2(start + count, Len(a.frameToDecode))
             framesToDeliver == FramesToDeliver(a, start, count)
             decodeIndices == DecodeIndicesForRequest(a, start, count)
             minDecodeIndex == SetMin(decodeIndices)
             maxDecodeIndex == SetMax(decodeIndices)
             keyframeIndex == KeyframeIndex(smp, minDecodeIndex)
             st0 == [ queue |-> a.decodeQueue, byTs |-> a.decodeQueueByTimestamp,
                      dec |-> w.decoder, seq |-> w.nextSeq,
                      decoded |-> <<>>, threw |-> <<>>, entries |-> <<>> ]
             st == SubmitLoop(st0, keyframeIndex,
                              DecodeEndExclusive(maxDecodeIndex, smp), smp,
                              framesToDeliver, a.decodeToFrame)
             range == <<start, requestEndFrameExclusive - 1>>
         IN  [ w EXCEPT
                 !.asset.pendingPrefetch = NoRange,
                 !.asset.currentFetchRange = range,
                 !.asset.decodeQueue = st.queue,
                 !.asset.decodeQueueByTimestamp = st.byTs,
                 !.decoder = st.dec,
                 !.nextSeq = st.seq,
                 !.clearTimers = Append(@, ClearFor(a, range, w.retryTimers)),
                 !.calls = Append(w.calls,
                                  CallRecord(w, start, count, "submitted", FALSE,
                                             keyframeIndex, st)) ]

World ==
    [ asset |-> asset, decoder |-> decoder, nextSeq |-> nextSeq,
      retryTimers |-> retryTimers, clearTimers |-> clearTimers, calls |-> <<>>,
      timer |-> NoTimer ]

\* the world a step leaves behind, within the bounds of the model
Commit(w) ==
    /\ w.nextSeq <= MaxEntries + 1
    /\ Len(w.retryTimers) <= MaxRetry
    /\ asset' = w.asset
    /\ decoder' = w.decoder
    /\ nextSeq' = w.nextSeq
    /\ retryTimers' = w.retryTimers
    /\ clearTimers' = w.clearTimers
    /\ calls' = w.calls
    /\ requested' = requested \cup
           UNION { w.calls[i].start..(w.calls[i].start + w.calls[i].count - 1) :
                     i \in { k \in 1..Len(w.calls) : w.calls[k].outcome = "submitted" } }


\* ------------------------------------------------------------ inputs
\* A coded sample as the demuxer hands it over: cts and dts in track ticks
\* (either may be absent) and the keyframe flag.
SampleInputs(decodeIndex) ==
    { [ cts |-> c, dts |-> decodeIndex, is_sync |-> k ] :
        c \in 0..MaxCts, k \in BOOLEAN }
    \cup { [ cts |-> Null, dts |-> d, is_sync |-> k ] :
             d \in { Null, decodeIndex }, k \in BOOLEAN }

\* the batches of n samples that can follow `have` samples already received,
\* the sample at decode index d drawn from inputs[d]
RECURSIVE BatchesOfLen(_, _, _)
BatchesOfLen(have, n, inputs) ==
    IF n = 0 THEN { <<>> }
    ELSE { Append(b, x) : b \in BatchesOfLen(have, n - 1, inputs),
                          x \in inputs[have + n - 1] }

Batches(have, lens, inputs) ==
    UNION { BatchesOfLen(have, n, inputs) :
              n \in { n \in lens : have + n <= MaxSamples } }

\* coded sizes of the track: a small one and one for which the 96MB cap
\* leaves a warm-up of two frames
SmallTrack == [ codedWidth |-> 2, codedHeight |-> 2, nb_samples |-> MaxSamples ]
LargeTrack ==
    [ codedWidth |-> 4096, codedHeight |-> 3072, nb_samples |-> MaxSamples ]

\* ------------------------------------------------------------ prepareVideo
\* A slip that frees the buffer and leaves the asset registered with its
\* pointer.
disposeVideoAssetKeepsEntry ==
    IF ~registry \/ ~registered
    THEN [ asset |-> asset, decoder |-> decoder, heap |-> heap,
           registered |-> registered, closes |-> 0, frees |-> 0 ]
    ELSE [ asset |-> asset,
           decoder |-> [ decoder EXCEPT !.state = "closed" ],
           heap |-> IF asset.ptr # 0 THEN Free(heap, asset.ptr) ELSE heap,
           registered |-> TRUE,
           closes |-> IF decoder.state # "closed" THEN 1 ELSE 0,
           frees |-> IF asset.ptr # 0 THEN 1 ELSE 0 ]

\* disposeVideoAsset(): what it does to the world, and what it did
disposeVideoAsset ==
    IF ~registry \/ ~registered
    THEN [ asset |-> asset, decoder |-> decoder, heap |-> heap,
           registered |-> registered, closes |-> 0, frees |-> 0 ]
    ELSE LET closing == decoder.state # "closed"
             freeing == asset.ptr # 0
         IN  [ asset |-> [ asset EXCEPT
                             !.ptr = 0,
                             !.frameBytes = IF freeing THEN 0 ELSE @,
                             !.canvas = FALSE,
                             !.pendingPrefetch = NoRange,
                             !.prefillRequested = FALSE,
                             !.decodeQueue = <<>> ],
               decoder |-> IF closing THEN [ decoder EXCEPT !.state = "closed" ]
                           ELSE decoder,
               heap |-> IF freeing THEN Free(heap, asset.ptr) ELSE heap,
               registered |-> FALSE,
               closes |-> IF closing THEN 1 ELSE 0,
               frees |-> IF freeing THEN 1 ELSE 0 ]

DisposeEffects(d) ==
    /\ asset' = d.asset
    /\ decoder' = d.decoder
    /\ heap' = d.heap
    /\ registered' = d.registered
    /\ disposeLog' = [ calls |-> disposeLog.calls + 1,
                       closes |-> disposeLog.closes + d.closes,
                       frees |-> disposeLog.frees + d.frees,
                       threw |-> FALSE,
                       loads |-> disposeLog.loads \cup
                                 (IF registered THEN { asset.load } ELSE {}) ]

DisposeVideoAsset ==
    /\ disposeLog.calls < MaxDispose
    /\ DisposeEffects(disposeVideoAsset)
    /\ calls' = <<>>
    /\ requested' = requested
    /\ UNCHANGED << registry, samples, loader, retryTimers, clearTimers,
                    callbacks, frameIndex, nextSeq, hookCalls, lastMatch, lastOutput,
                    lastDelivery, delivered >>

\* prepareVideo up to the fetch of loadWebCodecVideoAsset
PrepareVideo ==
    /\ loader.phase = "idle"
    /\ DisposeEffects(disposeVideoAsset)
    /\ loader' = [ phase |-> "fetching", promise |-> "pending", resolved |-> FALSE,
                   loads |-> 1, overlap |-> 0 ]
    /\ calls' = <<>>
    /\ requested' = requested
    /\ UNCHANGED << registry, samples, retryTimers, clearTimers, callbacks,
                    frameIndex, nextSeq, hookCalls, lastMatch, lastOutput, lastDelivery, delivered >>

\* prepareVideo called again, while the run before it is fetching or after
\* its container was opened: the registered asset is disposed and a new load
\* starts; a run that is still fetching goes on to its onReady
PrepareVideoAgain ==
    /\ loader.phase # "idle"
    /\ loader.loads < MaxLoads
    /\ DisposeEffects(disposeVideoAsset)
    /\ loader' = [ phase |-> "fetching", promise |-> "pending", resolved |-> FALSE,
                   loads |-> loader.loads + 1,
                   overlap |-> IF loader.phase = "fetching"
                               THEN loader.overlap + 1 ELSE loader.overlap ]
    /\ calls' = <<>>
    /\ requested' = requested
    /\ UNCHANGED << registry, samples, retryTimers, clearTimers, callbacks,
                    frameIndex, nextSeq, hookCalls, lastMatch, lastOutput, lastDelivery, delivered >>

\* ------------------------------------------------------------ onReady
InitialPrefillFrames(track) ==
    Min2(PrefillCap,
         CacheBytes \div (track.codedWidth * track.codedHeight * BytesPerPixel))

NewAsset(track, ptr) ==
    [ BlankAsset EXCEPT
        !.ptr = ptr,
        !.totalFrames = track.nb_samples,
        !.frameBytes = track.codedWidth * track.codedHeight * BytesPerPixel,
        !.width = track.codedWidth,
        !.height = track.codedHeight,
        !.initialPrefillFrames = InitialPrefillFrames(track),
        !.isInitialPrefill = TRUE ]

\* onReady of the load numbered `load`, from the buffer allocation to the
\* registration under the asset id
Register(track, load) ==
    /\ heap' = Malloc(heap, track.codedWidth * track.codedHeight * BytesPerPixel)
    /\ asset' = [ NewAsset(track, Len(heap) + 1) EXCEPT !.load = load ]
    /\ decoder' = [ state |-> "configured", keyRequired |-> TRUE, pending |-> <<>> ]
    /\ registry' = TRUE
    /\ registered' = TRUE
    /\ samples' = <<>>
    /\ frameIndex' = 0
    /\ calls' = <<>>
    /\ requested' = requested
    /\ UNCHANGED << retryTimers, clearTimers, callbacks, nextSeq,
                    hookCalls, lastMatch, lastOutput, lastDelivery, delivered, disposeLog >>

OnReady(track) ==
    /\ loader.phase = "fetching"
    /\ loader.overlap = 0
    /\ Len(heap) < MaxBlocks
    /\ Register(track, loader.loads)
    /\ loader' = [ loader EXCEPT !.phase = "parsing" ]

\* onReady of an earlier prepareVideo run, whose container is ready before
\* that of the run started after it
OnReadyOverlapped(track) ==
    /\ loader.phase = "fetching"
    /\ loader.overlap > 0
    /\ Len(heap) < MaxBlocks
    /\ Register(track, loader.loads - loader.overlap)
    /\ loader' = [ loader EXCEPT !.overlap = @ - 1 ]

\* onReady for a container without a video track
OnReadyNoTrack ==
    /\ loader.phase = "fetching"
    /\ loader' = [ loader EXCEPT !.phase = "failed", !.promise = "rejected" ]
    /\ calls' = <<>>
    /\ requested' = requested
    /\ UNCHANGED << registry, registered, asset, samples, decoder, retryTimers,
                    clearTimers, heap, callbacks, frameIndex, nextSeq,
                    hookCalls, lastMatch, lastOutput, lastDelivery, delivered, disposeLog >>

\* ------------------------------------------------------------ onSamples
NormalizeSample(sample, decodeIndex) ==
    [ cts |-> sample.cts, dts |-> sample.dts, is_sync |-> sample.is_sync,
      decodeIndex |-> decodeIndex,
      compositionTimestamp |-> getCompositionTimestamp(sample),
      timestampMicros |->
          convertTimestampToMicros(getCompositionTimestamp(sample), Timescale,
                                   decodeIndex, Fps),
      frameIndex |-> Null ]

AppendBatch(smp, batch) ==
    smp \o [ i \in 1..Len(batch) |-> NormalizeSample(batch[i], Len(smp) + i - 1) ]

\* the retry timers of a request that onSamples has just submitted
NoteReissue(w, pending) ==
    IF w.calls[Len(w.calls)].outcome # "submitted" THEN w
    ELSE [ w EXCEPT !.retryTimers =
             [ k \in 1..Len(@) |->
                 IF /\ @[k].start = pending[1]
                    /\ @[k].count = pending[2]
                    /\ @[k].load = w.asset.load
                 THEN [ @[k] EXCEPT !.reissued = TRUE ] ELSE @[k] ] ]

OnSamples(batch) ==
    /\ loader.phase = "parsing"
    /\ Len(samples) + Len(batch) <= MaxSamples
    /\ Len(samples) + Len(batch) <= asset.totalFrames
    /\ IF ~registered
       THEN /\ calls' = <<>>
            /\ requested' = requested
            /\ UNCHANGED << asset, samples, decoder, loader, retryTimers,
                            clearTimers, nextSeq >>
       ELSE LET all == AppendBatch(samples, batch)
                stamped == StampSamples(all, SortTimeline(TimelineOf(all)))
                a1 == [ updatePresentationTimeline(asset, all) EXCEPT
                          !.samplesSet = TRUE ]
                w0 == [ World EXCEPT !.asset = a1 ]
                pending == a1.pendingPrefetch
                firePending == pending # NoRange
                               /\ hasFramesForRange(a1, pending[1], pending[2])
                w1 == IF firePending
                      THEN NoteReissue(
                               feedBatch([ w0 EXCEPT !.asset.pendingPrefetch = NoRange ],
                                         pending[1], pending[2], stamped),
                               pending)
                      ELSE w0
                firePrefill == ~w1.asset.prefillRequested
                               /\ hasFramesForRange(w1.asset, 0,
                                                    w1.asset.initialPrefillFrames)
                w2 == IF firePrefill
                      THEN feedBatch([ w1 EXCEPT !.asset.prefillRequested = TRUE ],
                                     0, w1.asset.initialPrefillFrames, stamped)
                      ELSE w1
            IN  /\ Commit(w2)
                /\ samples' = stamped
                /\ loader' = IF firePrefill /\ ~loader.resolved
                             THEN [ loader EXCEPT
                                      !.resolved = TRUE,
                                      !.promise = IF @ = "pending"
                                                  THEN "resolved" ELSE @ ]
                             ELSE loader
    /\ UNCHANGED << registry, registered, heap, callbacks, frameIndex,
                    hookCalls, lastMatch, lastOutput, lastDelivery, delivered, disposeLog >>

\* ------------------------------------------------- prefetchFrames and timers
\* the hook setupWebCodecHooks installs on player.Module
PrefetchFrames(start, count) ==
    /\ loader.phase # "idle"
    /\ hookCalls < MaxCalls
    /\ hookCalls' = hookCalls + 1
    /\ LET w0 == IF registered
                 THEN [ World EXCEPT !.asset.isInitialPrefill = FALSE ]
                 ELSE World
       IN  Commit(feedBatch(w0, start, count, samples))
    /\ UNCHANGED << registry, registered, samples, loader, heap, callbacks,
                    frameIndex, lastMatch, lastOutput, lastDelivery, delivered, disposeLog >>

\* setTimeout(() => feedBatch(assetId, start, count), 16) fires
RetryTimer ==
    /\ retryTimers # <<>>
    /\ LET req == Head(retryTimers)
           w0 == [ World EXCEPT
                     !.retryTimers = Tail(retryTimers),
                     !.clearTimers =
                         [ k \in 1..Len(@) |->
                             [ @[k] EXCEPT !.after = IF @ > 0 THEN @ - 1 ELSE 0 ] ],
                     !.timer = req ]
       IN  Commit(feedBatch(w0, req.start, req.count, samples))
    /\ UNCHANGED << registry, registered, samples, loader, heap, callbacks,
                    frameIndex, hookCalls, lastMatch, lastOutput, lastDelivery, delivered, disposeLog >>

\* setTimeout(() => { asset.currentFetchRange = null; }, 100) fires
ClearTimer ==
    /\ clearTimers # <<>>
    /\ Head(clearTimers).after = 0
    /\ clearTimers' = Tail(clearTimers)
    /\ asset' = IF Head(clearTimers).load = asset.load
                THEN [ asset EXCEPT !.currentFetchRange = NoRange ]
                ELSE asset
    /\ calls' = <<>>
    /\ requested' = requested
    /\ UNCHANGED << registry, registered, samples, decoder, loader, retryTimers,
                    heap, callbacks, frameIndex, nextSeq, hookCalls, lastMatch, lastOutput,
                    lastDelivery, delivered, disposeLog >>

\* ------------------------------------------------------------ decoderOutput
NoEntry == [ sampleIndex |-> Null, frameIndex |-> Null, deliver |-> TRUE,
             timestamp |-> Null, id |-> 0 ]

\* A slip that takes the newest entry of the bucket.
BucketPickLast(bucket) == bucket[Len(bucket)]

\* entriesForTimestamp.shift()
BucketPick(bucket) == Head(bucket)

\* the lookup of the queue entry: by the bucket of frame.timestamp, else the
\* head of the flat queue, else none
MatchEntry(a, ts) ==
    LET m == a.decodeQueueByTimestamp
        q == a.decodeQueue
    IN  IF ts \in DOMAIN m /\ Len(m[ts]) > 0
        THEN LET e == BucketPick(m[ts])
                 rest == RemoveEntry(m[ts], e.id)
             IN  [ via |-> "bucket", entry |-> e,
                   queue |-> RemoveEntry(q, e.id),
                   byTs |-> IF rest = <<>> THEN BucketDelete(m, ts)
                            ELSE [ m EXCEPT ![ts] = rest ] ]
        ELSE IF Len(q) > 0
        THEN LET e == Head(q)
                 inMap == e.timestamp \in DOMAIN m
                 rest == IF inMap THEN RemoveEntry(m[e.timestamp], e.id) ELSE <<>>
             IN  [ via |-> "fifo", entry |-> e, queue |-> Tail(q),
                   byTs |-> IF ~inMap THEN m
                            ELSE IF rest = <<>> THEN BucketDelete(m, e.timestamp)
                            ELSE [ m EXCEPT ![e.timestamp] = rest ] ]
        ELSE [ via |-> "none", entry |-> NoEntry, queue |-> q, byTs |-> m ]

\* A slip that takes the entry's decode index for its frame index.
TargetFrameIndexBySample(match, counter) ==
    IF match.via = "none" THEN counter ELSE match.entry.sampleIndex

TargetFrameIndex(match, counter) ==
    IF match.via = "none" THEN counter
    ELSE IF match.entry.frameIndex # Null THEN match.entry.frameIndex
    ELSE match.entry.sampleIndex

\* A slip that leaves the counter alone when an entry was matched.
NextCounterKeeps(match, counter, target) ==
    IF match.via = "none" THEN counter + 1 ELSE counter

\* the closure's frameIndex counter after the output was given its index
NextCounter(match, counter, target) ==
    IF match.via = "none" THEN counter + 1 ELSE Max2(counter, target + 1)

\* stride * frameHeight for the visible rectangle, each side at least 1
RequiredBytes(w, h) == (Max2(1, w) * BytesPerPixel) * Max2(1, h)

NeedsBuffer(a, requiredBytes) == a.ptr = 0 \/ a.frameBytes < requiredBytes

DeliveryRecord(a, h, cb) ==
    [ made |-> TRUE, frame |-> cb.target, ptr |-> a.ptr,
      live |-> a.ptr # 0 /\ h[a.ptr].live,
      size |-> IF a.ptr # 0 THEN h[a.ptr].size ELSE 0,
      required |-> cb.required, frameBytes |-> a.frameBytes,
      registered |-> registered ]

\* asset.ptr = null; asset.frameBytes = 0 after the block was freed
ReleaseBuffer(a) ==
    IF a.ptr # 0 THEN [ a EXCEPT !.ptr = 0, !.frameBytes = 0 ] ELSE a

\* decoderOutput from `if (copySucceeded)` to its end, for the invocation cb
DeliverTail(a, h, cb, copySucceeded, deliverThrows) ==
    IF copySucceeded
    THEN LET a1 == [ a EXCEPT !.width = Max2(1, cb.w), !.height = Max2(1, cb.h),
                              !.frameBytes = cb.required ]
         IN  IF deliverThrows
             THEN [ asset |-> a1, heap |-> h, delivery |-> lastDelivery,
                    tally |-> delivered,
                    out |-> [ exit |-> "throw", closes |-> 0, target |-> cb.target ] ]
             ELSE [ asset |-> [ a1 EXCEPT !.currentPrefillIndex =
                                   IF a1.isInitialPrefill THEN @ + 1 ELSE @ ],
                    heap |-> h,
                    delivery |-> DeliveryRecord(a1, h, cb),
                    tally |-> [ frames |-> delivered.frames \cup { cb.target },
                                warm |-> IF a1.isInitialPrefill
                                         THEN delivered.warm + 1
                                         ELSE delivered.warm ],
                    out |-> [ exit |-> "delivered", closes |-> 1,
                              target |-> cb.target ] ]
    ELSE [ asset |-> ReleaseBuffer(a),
           heap |-> IF a.ptr # 0 THEN Free(h, a.ptr) ELSE h,
           delivery |-> lastDelivery,
           tally |-> delivered,
           out |-> [ exit |-> "copyfail", closes |-> 1, target |-> cb.target ] ]

Finish(a, h, counter, cbs, match, out, delivery, tally) ==
    /\ Len(h) <= MaxBlocks
    /\ Len(cbs) <= MaxInFlight
    /\ asset' = a
    /\ heap' = h
    /\ frameIndex' = counter
    /\ callbacks' = cbs
    /\ lastMatch' = match
    /\ lastOutput' = out
    /\ lastDelivery' = delivery
    /\ delivered' = tally

MatchRecord(a, ts, match, target) ==
    LET same == { a.decodeQueue[k].id : k \in { k \in 1..Len(a.decodeQueue) :
                                            a.decodeQueue[k].timestamp = ts } }
    IN  [ via |-> match.via, timestamp |-> ts, entry |-> match.entry.id,
          firstQueued |-> IF same = {} THEN 0 ELSE SetMin(same),
          sameTs |-> Cardinality(same),
          bucket |-> IF ts \in DOMAIN a.decodeQueueByTimestamp
                     THEN Len(a.decodeQueueByTimestamp[ts]) ELSE 0,
          head |-> IF a.decodeQueue = <<>> THEN 0 ELSE Head(a.decodeQueue).id,
          target |-> target,
          earlier |-> Max2(lastMatch.earlier, lastMatch.target),
          ahead |-> Cardinality({ k \in 1..Len(a.decodeQueue) :
                                     a.decodeQueue[k].id < match.entry.id }) ]

\* decoderOutput(frame) up to `await frame.copyTo`, for a frame of timestamp
\* ts; x holds what the platform decides: the visible rectangle, and which of
\* the calls made on the way throw.
decoderOutput(ts, x) ==
    /\ calls' = <<>>
    /\ requested' = requested
    /\ UNCHANGED << registry, registered, samples, loader, retryTimers,
                    clearTimers, nextSeq, hookCalls, disposeLog >>
    /\ IF ~registered
       THEN Finish(asset, heap, frameIndex, callbacks, lastMatch,
                   [ exit |-> "noasset", closes |-> 1, target |-> Null ],
                   lastDelivery, delivered)
       ELSE
       LET match == MatchEntry(asset, ts)
           a1 == [ asset EXCEPT !.decodeQueue = match.queue,
                                !.decodeQueueByTimestamp = match.byTs ]
           target == TargetFrameIndex(match, frameIndex)
           noted == MatchRecord(asset, ts, match, target)
           counter == NextCounter(match, frameIndex, target)
           requiredBytes == RequiredBytes(x.w, x.h)
           a2 == [ a1 EXCEPT !.useStrideSize = @ \/ x.allocThrows ]
           cb == [ target |-> target, required |-> requiredBytes,
                   w |-> x.w, h |-> x.h, buf |-> 0 ]
       IN
       IF match.via # "none" /\ ~match.entry.deliver
       THEN Finish(a1, heap, counter, callbacks, noted,
                   [ exit |-> "skip", closes |-> 1, target |-> target ],
                   lastDelivery, delivered)
       ELSE IF a1.isInitialPrefill
               /\ a1.currentPrefillIndex >= a1.initialPrefillFrames
       THEN Finish(a1, heap, counter, callbacks, noted,
                   [ exit |-> "warmup", closes |-> 1, target |-> target ],
                   lastDelivery, delivered)
       ELSE IF NeedsBuffer(a2, requiredBytes) /\ x.mallocThrows
       THEN Finish(a2, IF a2.ptr # 0 THEN Free(heap, a2.ptr) ELSE heap, counter,
                   callbacks, noted,
                   [ exit |-> "throw", closes |-> 0, target |-> target ],
                   lastDelivery, delivered)
       ELSE
       LET h1 == IF NeedsBuffer(a2, requiredBytes) /\ a2.ptr # 0
                 THEN Free(heap, a2.ptr) ELSE heap
           h2 == IF NeedsBuffer(a2, requiredBytes)
                 THEN Malloc(h1, requiredBytes) ELSE h1
           a3 == IF NeedsBuffer(a2, requiredBytes)
                 THEN [ a2 EXCEPT !.ptr = Len(h2), !.frameBytes = requiredBytes ]
                 ELSE a2
           cb3 == [ cb EXCEPT !.buf = a3.ptr ]
       IN
       IF a3.copyMethod = "canvas"
       THEN LET t == DeliverTail([ a3 EXCEPT !.canvas = TRUE ], h2, cb3,
                                 x.canvasOk, x.deliverThrows)
            IN  Finish(t.asset, t.heap, counter, callbacks, noted, t.out,
                       t.delivery, t.tally)
       ELSE Finish(a3, h2, counter, Append(callbacks, cb3), noted, lastOutput,
                   lastDelivery, delivered)

\* The decoder calls decoderOutput for the i-th output it owes; the frame
\* carries its chunk's timestamp or one the decoder has rewritten.
DecoderOutput(i, x) ==
    /\ i \in 1..Len(decoder.pending)
    /\ decoder' = [ decoder EXCEPT !.pending =
                      SubSeq(@, 1, i - 1) \o SubSeq(@, i + 1, Len(@)) ]
    /\ decoderOutput(IF x.kept THEN decoder.pending[i] ELSE RewrittenTs, x)

\* The decoder, having accepted chunks, calls decoderOutput for a frame that
\* none of them accounts for.
UnexpectedOutput(x) ==
    /\ decoder.state = "configured"
    /\ ~decoder.keyRequired
    /\ frameIndex < MaxSamples
    /\ decoder' = decoder
    /\ decoderOutput(RewrittenTs, x)

\* frame.copyTo settles for the j-th suspended invocation, which runs to its end
CopyResume(j, y) ==
    /\ j \in 1..Len(callbacks)
    /\ calls' = <<>>
    /\ requested' = requested
    /\ UNCHANGED << registry, registered, samples, decoder, loader, retryTimers,
                    clearTimers, nextSeq, hookCalls, disposeLog >>
    /\ LET cb == callbacks[j]
           rest == SubSeq(callbacks, 1, j - 1) \o SubSeq(callbacks, j + 1,
                                                         Len(callbacks))
           a1 == IF y.copyOk
                 THEN [ asset EXCEPT !.copyMethod =
                            IF @ = "unset" THEN "direct" ELSE @ ]
                 ELSE [ asset EXCEPT !.copyMethod =
                            IF @ = "unset" THEN "canvas" ELSE @,
                                     !.canvas = TRUE ]
           t == DeliverTail(a1, heap, cb, y.copyOk \/ y.canvasOk, y.deliverThrows)
       IN  Finish(t.asset, t.heap, frameIndex, rest, lastMatch, t.out, t.delivery, t.tally)

\* the decoder's error callback: the decoder closes itself and the load's
\* promise is rejected
DecoderError ==
    /\ decoder.state = "configured"
    /\ decoder' = [ decoder EXCEPT !.state = "closed" ]
    /\ loader' = [ loader EXCEPT !.promise = IF @ = "pending" THEN "rejected" ELSE @ ]
    /\ calls' = <<>>
    /\ requested' = requested
    /\ UNCHANGED << registry, registered, asset, samples, retryTimers,
                    clearTimers, heap, callbacks, frameIndex, nextSeq, hookCalls,
                    lastMatch, lastOutput, lastDelivery, delivered, disposeLog >>

\* mp4boxFile.onError: the container parser reports an error
OnError ==
    /\ loader.phase \in { "fetching", "parsing" }
    /\ loader.promise = "pending"
    /\ loader' = [ loader EXCEPT !.promise = "rejected" ]
    /\ calls' = <<>>
    /\ requested' = requested
    /\ UNCHANGED << registry, registered, asset, samples, decoder, retryTimers,
                    clearTimers, heap, callbacks, frameIndex, nextSeq, hookCalls,
                    lastMatch, lastOutput, lastDelivery, delivered, disposeLog >>

\* how a pending copy ends: copyTo settles or rejects, the canvas fallback
\* (consulted only after a rejection) works or fails, and the delivery calls
\* (made only after a copy) return or throw
ResumeInputs ==
    { y \in [ copyOk : BOOLEAN, canvasOk : BOOLEAN, deliverThrows : BOOLEAN ] :
        /\ y.copyOk => y.canvasOk
        /\ y.deliverThrows => (y.copyOk \/ y.canvasOk) }

\* ------------------------------------------------------------ specifications
Requests == { <<s, c>> : s \in 0..(MaxSamples - 1), c \in 1..MaxCount }

DecodeIndices == 0..(MaxSamples - 1)

AnySamples == [ d \in DecodeIndices |-> SampleInputs(d) ]

\* samples that carry a composition timestamp
TimedSamples == [ d \in DecodeIndices |-> { x \in SampleInputs(d) : x.cts # Null } ]

\* presentation order is decode order and the stream opens with its only keyframe
PlainSamples ==
    [ d \in DecodeIndices |-> { [ cts |-> d, dts |-> d, is_sync |-> d = 0 ] } ]

\* timestamps that repeat, in a stream that opens with its only keyframe
RepeatSamples ==
    [ d \in DecodeIndices |->
        { [ cts |-> c, dts |-> d, is_sync |-> d = 0 ] : c \in 0..1 } ]

SomeBatch == 1..MaxBatch
WholeStream == { MaxSamples }

\* The timeline builder under every kind of sample.
NextTimeline ==
    \/ PrepareVideo
    \/ OnReady(LargeTrack)
    \/ \E b \in Batches(Len(samples), SomeBatch, AnySamples) : OnSamples(b)
    \/ ClearTimer

SpecTimeline == Init /\ [][NextTimeline]_vars

\* The batch feeder under every placement of timestamps and keyframes.
NextFeed ==
    \/ PrepareVideo
    \/ OnReady(SmallTrack)
    \/ \E b \in Batches(Len(samples), SomeBatch, TimedSamples) : OnSamples(b)
    \/ \E r \in Requests : PrefetchFrames(r[1], r[2])
    \/ RetryTimer
    \/ ClearTimer

SpecFeed == Init /\ [][NextFeed]_vars

\* Requests, retries and the in-flight marker around the arrival of batches.
Next ==
    \/ PrepareVideo
    \/ OnReady(LargeTrack)
    \/ \E b \in Batches(Len(samples), SomeBatch, PlainSamples) : OnSamples(b)
    \/ \E r \in Requests : PrefetchFrames(r[1], r[2])
    \/ RetryTimer
    \/ ClearTimer

Spec == Init /\ [][Next]_vars

\* what the platform decides for an output: visible rectangles one row high of
\* every width, an allocation that may throw
BufferOutputs ==
    [ kept : { TRUE }, w : 1..MaxDim, h : { 1 }, allocThrows : { FALSE },
      mallocThrows : BOOLEAN, canvasOk : { TRUE }, deliverThrows : { FALSE } ]

\* outputs of the coded size that never throw, with or without their timestamp
MatchOutputs ==
    [ kept : BOOLEAN, w : { SmallTrack.codedWidth }, h : { SmallTrack.codedHeight },
      allocThrows : { FALSE }, mallocThrows : { FALSE }, canvasOk : { TRUE },
      deliverThrows : { FALSE } ]

CopySucceeds == [ copyOk : { TRUE }, canvasOk : { TRUE }, deliverThrows : { FALSE } ]

WholeRequest == { <<0, MaxSamples>> }

\* Decoder outputs of every size against the shared buffer: the stream
\* arrives in one batch and the engine asks for all of it.
NextBuffer ==
    \/ PrepareVideo
    \/ OnReady(SmallTrack)
    \/ \E b \in Batches(Len(samples), WholeStream, PlainSamples) : OnSamples(b)
    \/ \E r \in WholeRequest : PrefetchFrames(r[1], r[2])
    \/ ClearTimer
    \/ \E i \in 1..Len(decoder.pending), x \in BufferOutputs : DecoderOutput(i, x)
    \/ \E j \in 1..Len(callbacks), y \in ResumeInputs : CopyResume(j, y)

SpecBuffer == Init /\ [][NextBuffer]_vars

\* Decoder outputs against the decode queue and its per-timestamp buckets.
NextMatch ==
    \/ PrepareVideo
    \/ OnReady(SmallTrack)
    \/ \E b \in Batches(Len(samples), WholeStream, RepeatSamples) : OnSamples(b)
    \/ \E r \in Requests : PrefetchFrames(r[1], r[2])
    \/ ClearTimer
    \/ \E i \in 1..Len(decoder.pending), x \in MatchOutputs : DecoderOutput(i, x)
    \/ \E j \in 1..Len(callbacks), y \in CopySucceeds : CopyResume(j, y)

SpecMatch == Init /\ [][NextMatch]_vars

\* The matcher when the decoder rewrites timestamps and emits frames of its
\* own: the FIFO fallback and the synthesized frame index.
NextFallback ==
    \/ PrepareVideo
    \/ OnReady(SmallTrack)
    \/ \E b \in Batches(Len(samples), WholeStream, PlainSamples) : OnSamples(b)
    \/ \E r \in WholeRequest : PrefetchFrames(r[1], r[2])
    \/ ClearTimer
    \/ \E i \in 1..Len(decoder.pending), x \in MatchOutputs : DecoderOutput(i, x)
    \/ \E x \in MatchOutputs : UnexpectedOutput(x)
    \/ \E j \in 1..Len(callbacks), y \in CopySucceeds : CopyResume(j, y)

SpecFallback == Init /\ [][NextFallback]_vars

\* outputs of the smallest and the largest width whose calls do not throw
LifecycleOutputs ==
    [ kept : { TRUE }, w : { 1, MaxDim }, h : { 1 }, allocThrows : { FALSE },
      mallocThrows : { FALSE }, canvasOk : { TRUE }, deliverThrows : { FALSE } ]

LifecycleResumes == { y \in ResumeInputs : ~y.deliverThrows }

\* Disposal at any moment of a load, before it, and after a decoder error.
NextLifecycle ==
    \/ PrepareVideo
    \/ OnReady(SmallTrack)
    \/ OnReadyNoTrack
    \/ \E b \in Batches(Len(samples), WholeStream, PlainSamples) : OnSamples(b)
    \/ \E r \in WholeRequest : PrefetchFrames(r[1], r[2])
    \/ ClearTimer
    \/ \E i \in 1..Len(decoder.pending), x \in LifecycleOutputs : DecoderOutput(i, x)
    \/ \E j \in 1..Len(callbacks), y \in LifecycleResumes : CopyResume(j, y)
    \/ DecoderError
    \/ DisposeVideoAsset

SpecLifecycle == Init /\ [][NextLifecycle]_vars

\* outputs of the large track: its coded size, timestamp kept, no call throws
LoadOutputs ==
    [ kept : { TRUE }, w : { LargeTrack.codedWidth }, h : { LargeTrack.codedHeight },
      allocThrows : { FALSE }, mallocThrows : { FALSE }, canvasOk : { TRUE },
      deliverThrows : { FALSE } ]

\* A load from its start to the settling of its promise, with the warm-up
\* outputs, the ways the load fails and the engine's first requests.
NextLoad ==
    \/ PrepareVideo
    \/ OnReady(LargeTrack)
    \/ OnReadyNoTrack
    \/ OnError
    \/ \E b \in Batches(Len(samples), SomeBatch, PlainSamples) : OnSamples(b)
    \/ \E r \in WholeRequest : PrefetchFrames(r[1], r[2])
    \/ ClearTimer
    \/ \E i \in 1..Len(decoder.pending), x \in LoadOutputs : DecoderOutput(i, x)
    \/ \E j \in 1..Len(callbacks), y \in CopySucceeds : CopyResume(j, y)
    \/ DecoderError

SpecLoad == Init /\ [][NextLoad]_vars

\* The warm-up of a load: the prefill outputs and their copies, with a decoder
\* that may emit frames beyond the chunks it was given, until the engine's
\* first request ends the warm-up.
NextWarmup ==
    \/ PrepareVideo
    \/ OnReady(LargeTrack)
    \/ \E b \in Batches(Len(samples), WholeStream, PlainSamples) : OnSamples(b)
    \/ \E r \in WholeRequest : PrefetchFrames(r[1], r[2])
    \/ ClearTimer
    \/ \E i \in 1..Len(decoder.pending), x \in LoadOutputs : DecoderOutput(i, x)
    \/ \E x \in LoadOutputs : UnexpectedOutput(x)
    \/ \E j \in 1..Len(callbacks), y \in CopySucceeds : CopyResume(j, y)

SpecWarmup == Init /\ [][NextWarmup]_vars

\* prepareVideo run again for the same id, while the first run is fetching or
\* after its asset was registered, with the requests and timers of both loads.
NextReload ==
    \/ PrepareVideo
    \/ PrepareVideoAgain
    \/ OnReady(SmallTrack)
    \/ OnReadyOverlapped(SmallTrack)
    \/ \E b \in Batches(Len(samples), SomeBatch, PlainSamples) : OnSamples(b)
    \/ \E r \in Requests : PrefetchFrames(r[1], r[2])
    \/ RetryTimer
    \/ ClearTimer

SpecReload == Init /\ [][NextReload]_vars

\* a coded size over the 96MB cap: Math.floor(96MB / frame bytes) is 0
HugeTrack ==
    [ codedWidth |-> 8192, codedHeight |-> 4096, nb_samples |-> MaxSamples ]

\* streams of every length up to MaxSamples with a warm-up of two frames, and
\* a stream with a warm-up of none
Streams ==
    { [ LargeTrack EXCEPT !.nb_samples = n ] : n \in 1..MaxSamples }
    \cup { HugeTrack }

\* the engine asks for ranges that start at a frame of the stream
StreamRequest(r) == registered /\ r[1] < asset.totalFrames

\* Loads of streams of every length, to the end of the stream and beyond.
\* The fetch ends and the container opens, and every timer that was set
\* fires; the engine asks when it likes.
NextStreams ==
    \/ PrepareVideo
    \/ \E t \in Streams : OnReady(t)
    \/ \E b \in Batches(Len(samples), SomeBatch, PlainSamples) : OnSamples(b)
    \/ \E r \in Requests : StreamRequest(r) /\ PrefetchFrames(r[1], r[2])
    \/ RetryTimer
    \/ ClearTimer

SpecStreams ==
    /\ Init
    /\ [][NextStreams]_vars
    /\ WF_vars(PrepareVideo)
    /\ WF_vars(\E t \in Streams : OnReady(t))
    /\ WF_vars(RetryTimer)
    /\ WF_vars(ClearTimer)

\* ================================================================== claims
Submitted == { i \in 1..Len(calls) : calls[i].outcome = "submitted" }

\* decode indices of the frames a call asked for, in the timeline it saw
RequestedDecodeIndices(c) ==
    { At(c.frameToDecode, f) : f \in c.start..(c.start + c.count - 1) }

\* C1: with n samples received, frameToDecode and decodeToFrame are mutually
\* inverse permutations of 0..n-1: decodeToFrame[frameToDecode[f]] = f for
\* every frame f and every decode index maps to exactly one frame, also when
\* samples share a timestamp.
C1_TimelineBijection ==
    registered =>
        LET n == Len(samples)
            f2d == asset.frameToDecode
            d2f == asset.decodeToFrame
        IN  /\ Len(f2d) = n
            /\ Len(d2f) = n
            /\ \A f \in 0..(n - 1) :
                  /\ At(f2d, f) \in 0..(n - 1)
                  /\ At(d2f, At(f2d, f)) = f
            /\ \A d \in 0..(n - 1) :
                  /\ At(d2f, d) \in 0..(n - 1)
                  /\ At(f2d, At(d2f, d)) = d
                  /\ Cardinality({ f \in 0..(n - 1) : At(f2d, f) = d }) = 1

\* three samples, two of them with one timestamp, presented out of decode order
C1_Witness ==
    /\ registered
    /\ Len(samples) = MaxSamples
    /\ \E i, j \in 1..Len(samples) :
          i # j /\ samples[i].timestampMicros = samples[j].timestampMicros
    /\ \E f \in 0..(Len(samples) - 1) : At(asset.frameToDecode, f) # f

\* C2 as stated: the decode index a submission starts at is at or before the
\* minimum decode index of the requested frames and is a keyframe or the
\* stream's first sample, for every placement of keyframes.
C2_KeyframeOrFirstSample ==
    \A i \in Submitted :
        LET c == calls[i]
            minDecodeIndex == SetMin(RequestedDecodeIndices(c))
        IN  /\ c.keyframeIndex <= minDecodeIndex
            /\ At(samples, c.keyframeIndex).is_sync \/ c.keyframeIndex = 0

\* C2 amended: the start is at or before the minimum decode index and is the
\* nearest keyframe at or before it, or, when no sample at or before the
\* minimum decode index is a keyframe, the minimum decode index itself.
C2_KeyframeOrMinDecodeIndex ==
    \A i \in Submitted :
        LET c == calls[i]
            minDecodeIndex == SetMin(RequestedDecodeIndices(c))
            syncs == { d \in 0..minDecodeIndex : At(samples, d).is_sync }
        IN  /\ c.keyframeIndex >= 0
            /\ c.keyframeIndex <= minDecodeIndex
            /\ IF syncs = {} THEN c.keyframeIndex = minDecodeIndex
               ELSE /\ At(samples, c.keyframeIndex).is_sync
                    /\ \A d \in syncs : d <= c.keyframeIndex

\* a submission that starts at a keyframe strictly before the requested frames
C2_Witness ==
    \E i \in Submitted :
        /\ calls[i].keyframeIndex < SetMin(RequestedDecodeIndices(calls[i]))
        /\ At(samples, calls[i].keyframeIndex).is_sync

\* C3: an entry pushed by a submission of [start, start+count) has deliver =
\* TRUE exactly when its sample is the one presented at a frame of the range;
\* samples submitted only to get from the keyframe to the range are not
\* delivered.
C3_DeliverIffRequested ==
    \A i \in Submitted :
        LET c == calls[i]
        IN  \A k \in 1..Len(c.entries) :
               LET e == c.entries[k]
               IN  /\ e.deliver <=> e.sampleIndex \in RequestedDecodeIndices(c)
                   /\ e.deliver =>
                        /\ e.frameIndex \in c.start..(c.start + c.count - 1)
                        /\ At(c.frameToDecode, e.frameIndex) = e.sampleIndex

\* a reordered stream: one submission with a delivered and a decode-only entry
C3_Witness ==
    \E i \in Submitted :
        /\ \E k \in 1..Len(calls[i].entries) : calls[i].entries[k].deliver
        /\ \E k \in 1..Len(calls[i].entries) : ~calls[i].entries[k].deliver
        /\ \E f \in 0..(Len(calls[i].frameToDecode) - 1) :
              At(calls[i].frameToDecode, f) # f

\* C7: the samples passed to decoder.decode by a submission are the decode
\* indices from the resolved keyframe through the maximum decode index of the
\* requested frames, each once, ascending.
C7_SubmittedRange ==
    \A i \in Submitted :
        LET c == calls[i]
            maxDecodeIndex == SetMax(RequestedDecodeIndices(c))
        IN  /\ Len(c.decoded) = maxDecodeIndex - c.keyframeIndex + 1
            /\ \A k \in 1..Len(c.decoded) : c.decoded[k] = c.keyframeIndex + k - 1
            /\ Len(c.entries) = Len(c.decoded)
            /\ \A k \in 1..Len(c.entries) : c.entries[k].sampleIndex = c.decoded[k]

\* a submission that runs from a keyframe before the range to a maximum decode
\* index beyond the minimum one
C7_Witness ==
    \E i \in Submitted :
        LET c == calls[i]
        IN  /\ c.keyframeIndex < SetMin(RequestedDecodeIndices(c))
            /\ SetMin(RequestedDecodeIndices(c)) < SetMax(RequestedDecodeIndices(c))
            /\ Len(c.decoded) = MaxSamples

\* C4 as stated: a call on a registered asset whose range the timeline does not
\* cover submits nothing and leaves a retry scheduled.
C4_UncoveredCallRetries ==
    \A i \in 1..Len(calls) :
        (calls[i].registered /\ ~calls[i].covered) =>
            /\ calls[i].decoded = <<>>
            /\ calls[i].retry

\* C9 as stated: a call whose range overlaps a range that was submitted and
\* whose clearing timer has not fired is a no-op.
C9_OverlapIsNoOp ==
    \A i \in 1..Len(calls) :
        (calls[i].registered /\ calls[i].inFlight) =>
            calls[i].outcome = "overlap"


\* C5 as stated: whenever a frame is delivered, the block at asset.ptr is live
\* and at least as large as the bytes the frame requires, and asset.frameBytes
\* is at least that requirement.
C5_BufferCoversDeliveredFrame ==
    lastDelivery.made =>
        /\ lastDelivery.ptr # 0
        /\ lastDelivery.live
        /\ lastDelivery.size >= lastDelivery.required
        /\ lastDelivery.frameBytes >= lastDelivery.required

C8_BucketFifo ==
    lastMatch.firstQueued # 0 =>
        /\ lastMatch.via = "bucket"
        /\ lastMatch.entry = lastMatch.firstQueued

\* two entries queued for one timestamp, matched while another entry heads the
\* flat queue
C8_Witness ==
    /\ lastMatch.via = "bucket"
    /\ lastMatch.sameTs >= 2
    /\ lastMatch.ahead > 0

\* C10 as stated: the frame handed to decoderOutput has been closed exactly
\* once when the callback has ended, on every exit path.
C10_FrameClosedOnce ==
    lastOutput.exit # "none" => lastOutput.closes = 1

\* C11 as stated: every onPrefetchFrame call is made while the asset is still
\* registered; none is made for an asset that has been disposed.
C11_NoDeliveryAfterDispose ==
    lastDelivery.made => lastDelivery.registered

\* C12 as stated: whenever the promise of loadWebCodecVideoAsset is rejected,
\* no asset is registered under the id.
C12_RejectedLeavesNoAsset ==
    loader.promise = "rejected" => ~registered

\* C13 as stated: the promise of loadWebCodecVideoAsset is resolved only after
\* the first initialPrefillFrames frames have been delivered via
\* onPrefetchFrame.
C13_ResolvedAfterPrefillDelivered ==
    loader.promise = "resolved" =>
        \A f \in 0..(asset.initialPrefillFrames - 1) : f \in delivered.frames

QueueIds == { asset.decodeQueue[k].id : k \in 1..Len(asset.decodeQueue) }

BucketIds ==
    UNION { { asset.decodeQueueByTimestamp[ts][k].id :
                k \in 1..Len(asset.decodeQueueByTimestamp[ts]) } :
            ts \in DOMAIN asset.decodeQueueByTimestamp }

\* C14: for a registered asset the flat decode queue and the per-timestamp
\* buckets hold exactly the same entries, each once, every entry in the bucket
\* of its own timestamp and no bucket empty.
C14_QueueMatchesBuckets ==
    registered =>
        /\ QueueIds = BucketIds
        /\ Cardinality(QueueIds) = Len(asset.decodeQueue)
        /\ \A ts \in DOMAIN asset.decodeQueueByTimestamp :
              LET bucket == asset.decodeQueueByTimestamp[ts]
              IN  /\ Len(bucket) > 0
                  /\ \A k \in 1..Len(bucket) :
                        /\ bucket[k].timestamp = ts
                        /\ \E n \in 1..Len(asset.decodeQueue) :
                              asset.decodeQueue[n] = bucket[k]
                        /\ \A n \in 1..Len(bucket) :
                              bucket[n].id = bucket[k].id => n = k

\* an output matched through the FIFO fallback took an entry out of a bucket
\* that keeps another entry, and entries are still queued
C14_Witness ==
    /\ registered
    /\ lastMatch.via = "fifo"
    /\ lastMatch.sameTs = 0
    /\ Len(asset.decodeQueue) >= 2
    /\ \E ts \in DOMAIN asset.decodeQueueByTimestamp :
          Len(asset.decodeQueueByTimestamp[ts]) >= 2

\* C15 as stated: no entry outlives the outputs that can consume it; once the
\* decoder owes no output and no output callback is suspended, the decode
\* queue of a registered asset holds no entry (a stale entry has been dropped).
C15_NoStaleEntries ==
    (registered /\ decoder.pending = <<>> /\ callbacks = <<>>) =>
        asset.decodeQueue = <<>>

\* C16: with one output per submitted sample and every copy succeeding, the
\* frame indices passed to onPrefetchFrame all lie in a submitted range (an
\* output matched to a deliver = false entry delivers nothing), and once the
\* decoder owes no output and no copy is pending they are exactly the frames
\* of the submitted ranges.
C16_DeliveredIsRequested ==
    /\ delivered.frames \subseteq requested
    /\ (decoder.pending = <<>> /\ callbacks = <<>>) => delivered.frames = requested

\* after warm-up, a request that leaves out frame 0 has been served in full:
\* the samples from the keyframe on were decoded, frame 0 was not delivered
C16_Witness ==
    /\ registered
    /\ ~asset.isInitialPrefill
    /\ decoder.pending = <<>>
    /\ callbacks = <<>>
    /\ requested # {}
    /\ 0 \notin requested
    /\ delivered.frames = requested
    /\ lastOutput.exit \in { "skip", "delivered" }
    /\ nextSeq > Cardinality(requested) + 1

\* C17: an output whose timestamp has no non-empty bucket takes the head of
\* the flat queue when there is one, and that entry leaves its own bucket
\* too; only with the flat queue empty is its frame index synthesized, one
\* greater than the greatest index given to an earlier output (0 for the
\* first output of the load).
C17_FallbackOrder ==
    (lastMatch.timestamp # Null /\ lastMatch.bucket = 0) =>
        IF lastMatch.head # 0
        THEN /\ lastMatch.via = "fifo"
             /\ lastMatch.entry = lastMatch.head
             /\ lastMatch.entry \notin BucketIds
             /\ lastMatch.entry \notin QueueIds
        ELSE /\ lastMatch.via = "none"
             /\ lastMatch.target = lastMatch.earlier + 1

\* a frame index synthesized after earlier outputs were given indices
C17_Witness ==
    /\ lastMatch.via = "none"
    /\ lastMatch.bucket = 0
    /\ lastMatch.head = 0
    /\ lastMatch.earlier >= 1
    /\ lastMatch.target = lastMatch.earlier + 1

\* C18 as stated: the number of onPrefetchFrame calls made while the asset is
\* in warm-up never exceeds initialPrefillFrames.
C18_WarmupDeliveriesBounded ==
    registered => delivered.warm <= asset.initialPrefillFrames

\* C19 as stated: once the fast path has succeeded (copyMethod = 'direct') no
\* output of the asset runs the canvas fallback; the fallback canvas exists
\* only for an asset whose method is 'canvas'.
C19_DirectNeverFallsBack ==
    asset.copyMethod = "direct" => ~asset.canvas

\* C20 as stated: at most one output callback works on the shared buffer at a
\* time; no two pending copies target the same block, and no block is freed
\* while a copy into it is pending.
C20_OneCopyPerBuffer ==
    /\ \A j, k \in 1..Len(callbacks) :
          j # k => callbacks[j].buf # callbacks[k].buf
    /\ \A j \in 1..Len(callbacks) : heap[callbacks[j].buf].live

\* C21 as stated: a load registers its asset under the id only when no asset
\* is registered there, the decoder of the asset before it is closed and no
\* block of the heap is still allocated, also when two prepareVideo runs
\* overlap.
C21_PriorDisposedBeforeRegistration ==
    [][ (registered' /\ asset'.load # asset.load) =>
            /\ ~registered
            /\ decoder.state # "configured"
            /\ \A b \in 1..Len(heap) : ~heap[b].live ]_vars

\* C22 as stated: while the clearing timer of the latest submission is
\* pending, the in-flight marker holds the range that submission set (no
\* timer of an earlier submission clears it), and once every clearing timer
\* has fired the marker is clear.
C22_MarkerHeldUntilOwnTimer ==
    registered =>
        IF clearTimers = <<>> THEN asset.currentFetchRange = NoRange
        ELSE asset.currentFetchRange = clearTimers[Len(clearTimers)].range

\* C23: a submission in which decoder.decode threw for some sample still
\* passed every sample from the resolved keyframe to the maximum decode index
\* of the requested frames to the decoder, in ascending order, one attempt
\* each, and ended as every submission does, with its clearing timer set.
C23_ThrowDoesNotAbortBatch ==
    \A i \in Submitted :
        LET c == calls[i]
            n == Len(c.decoded)
        IN  (\E k \in 1..Len(c.threw) : c.threw[k]) =>
                /\ Len(c.threw) = n
                /\ c.decoded[1] = c.keyframeIndex
                /\ c.decoded[n] = SetMax(RequestedDecodeIndices(c))
                /\ \A k \in 1..(n - 1) : c.decoded[k + 1] = c.decoded[k] + 1
                /\ \E t \in 1..Len(clearTimers) :
                      clearTimers[t].range[1] = c.start

\* decode threw for the first sample of a submission (a delta chunk while
\* the decoder wanted a key chunk) and accepted a later one
C23_Witness ==
    \E i \in Submitted :
        /\ Len(calls[i].threw) >= 2
        /\ calls[i].threw[1]
        /\ ~calls[i].threw[Len(calls[i].threw)]

\* a step in which an output callback ended after both copy paths failed
CopyFailedStep ==
    /\ lastOutput'.exit = "copyfail"
    /\ \/ Len(callbacks') < Len(callbacks)
       \/ callbacks' = callbacks /\ decoder' # decoder

\* a step in which an output callback reached the copy of its frame
CopyReachedStep ==
    \/ Len(callbacks') > Len(callbacks)
    \/ /\ callbacks' = callbacks
       /\ decoder' # decoder
       /\ lastOutput'.exit = "delivered"

\* C24 as stated: a callback whose two copy paths failed makes no onPrefetchFrame call,
\* frees the shared buffer and leaves ptr = null and frameBytes = 0 on an
\* asset that stays registered; the next output that reaches its copy finds
\* no buffer, allocates a fresh block large enough for its frame and copies
\* into that block.
C24_CopyFailureReleasesBuffer ==
    [][ /\ CopyFailedStep =>
              /\ lastDelivery' = lastDelivery
              /\ delivered' = delivered
              /\ asset'.ptr = 0
              /\ asset'.frameBytes = 0
              /\ asset.ptr # 0 => ~heap'[asset.ptr].live
              /\ registered' = registered
        /\ (registered /\ asset.ptr = 0 /\ CopyReachedStep) =>
              /\ Len(heap') = Len(heap) + 1
              /\ asset'.ptr = Len(heap')
              /\ heap'[asset'.ptr].live
              /\ heap'[asset'.ptr].size >= RequiredBytes(asset'.width, asset'.height)
                 \/ Len(callbacks') > Len(callbacks)
              /\ \A j \in 1..Len(callbacks') :
                    j > Len(callbacks) =>
                        /\ callbacks'[j].buf = asset'.ptr
                        /\ heap'[asset'.ptr].size >= callbacks'[j].required ]_vars

\* C25: running updatePresentationTimeline again on the samples it has
\* stamped changes nothing (frameToDecode, decodeToFrame, frameTimestamps and
\* every sample's frameIndex and timestamps stay as they are);
\* frameTimestamps never decreases with the frame index, and frames of equal
\* timestamp are in ascending decode index.
C25_TimelineIdempotentOrdered ==
    registered =>
        LET again == updatePresentationTimeline(asset, samples)
            restamped == StampSamples(samples, SortTimeline(TimelineOf(samples)))
            n == Len(samples)
        IN  /\ again.frameToDecode = asset.frameToDecode
            /\ again.decodeToFrame = asset.decodeToFrame
            /\ again.frameTimestamps = asset.frameTimestamps
            /\ restamped = samples
            /\ Len(asset.frameTimestamps) = n
            /\ \A f, g \in 0..(n - 1) :
                  f < g =>
                      /\ At(asset.frameTimestamps, f) <= At(asset.frameTimestamps, g)
                      /\ At(asset.frameTimestamps, f) = At(asset.frameTimestamps, g)
                            => At(asset.frameToDecode, f) < At(asset.frameToDecode, g)

\* a full stream rebuilt over several batches, with a sample that has no
\* timestamp of its own, two samples of one timestamp and a presentation
\* order that is not the decode order
C25_Witness ==
    /\ registered
    /\ Len(samples) = MaxSamples
    /\ \E i \in 1..Len(samples) : samples[i].cts = Null
    /\ \E i, j \in 1..Len(samples) :
          i < j /\ samples[i].timestampMicros = samples[j].timestampMicros
    /\ \E f \in 0..(Len(samples) - 1) : At(asset.frameToDecode, f) # f

\* the demuxer has delivered every sample of a stream that has some
AllSamplesDelivered ==
    /\ registered
    /\ Len(samples) >= 1
    /\ Len(samples) = asset.totalFrames

\* C26 as stated: once the demuxer has delivered every sample of a stream
\* with a video track, the promise of loadWebCodecVideoAsset is eventually
\* settled, whatever the number of samples and the warm-up length.
C26_LoadSettles ==
    AllSamplesDelivered ~> (loader.promise \in { "resolved", "rejected" })

\* the calls of this step that a retry timer made for the current asset, for
\* a request that starts inside the stream
RetriedInStream ==
    { i \in 1..Len(calls) :
        /\ calls[i].timer.start # Null
        /\ calls[i].timer.load = asset.load
        /\ calls[i].start \in 0..(asset.totalFrames - 1)
        /\ calls[i].count > 0 }

\* C27 as stated: once every sample of the stream has been parsed, a retry
\* timer that fires for a request with start in [0, totalFrames) and count > 0
\* ends its chain, also when start + count is beyond the last frame: the call
\* it makes sets no further retry timer (nothing more will be parsed, so a
\* call that reschedules itself then does so at every retry).
C27_RetryChainEnds ==
    AllSamplesDelivered =>
        \A i \in RetriedInStream : ~calls[i].retry

\* the calls of this step made by a retry timer that a feedBatch on an asset
\* since disposed had set, and that found another asset under the id
StaleRetries ==
    { i \in 1..Len(calls) :
        /\ calls[i].timer.start # Null
        /\ calls[i].timer.load \in disposeLog.loads
        /\ calls[i].registered
        /\ calls[i].load # calls[i].timer.load }

\* C28 as stated, for the retry timers: after an asset is disposed and a new
\* one is created under the same id, a retry timer that a feedBatch on the
\* old asset had set never submits samples to the new asset's decoder.
C28_OldTimerLeavesNewAssetAlone ==
    \A i \in StaleRetries : calls[i].outcome # "submitted"

\* C29 as stated: when every sample has been parsed, the frame index that
\* feedBatch recorded on a decode queue entry is the presentation index of
\* the entry's sample in the timeline (no batch that came after the
\* submission has moved the sample to another frame).
C29_EntryIndexIsFinal ==
    AllSamplesDelivered =>
        \A i \in 1..Len(asset.decodeQueue) :
            LET e == asset.decodeQueue[i]
            IN  e.frameIndex # Null =>
                    /\ At(asset.decodeToFrame, e.sampleIndex) = e.frameIndex
                    /\ At(asset.frameToDecode, e.frameIndex) = e.sampleIndex

\* C30 as stated: a request recorded as pending is submitted to the decoder
\* at most once: when onSamples has re-issued it and the re-issue was
\* submitted, the request's own retry timer, whenever it fires, submits
\* nothing.
C30_PendingSubmittedOnce ==
    \A i \in 1..Len(calls) :
        calls[i].timer.reissued => calls[i].outcome # "submitted"

====
